---- MODULE Spec2Model ----
(***************************************************************************)
(* A model of python-exoscale's core:                                      *)
(*   - Exoscale.__init__ / Exoscale._get_profile  (exoscale/__init__.py)   *)
(*   - API.__attrs_post_init__ / API.send         (exoscale/api/__init__)  *)
(*   - Resource._reset                            (exoscale/api/__init__)  *)
(*                                                                         *)
(* Python values are modelled as strings; the Python value None is the     *)
(* string None below, which no input set contains as an ordinary string.   *)
(* A Python dict is a function whose DOMAIN is the set of its keys, so     *)
(* "k in d" is k \in DOMAIN d.                                             *)
(***************************************************************************)
EXTENDS Integers, Sequences, FiniteSets, TLC

VARIABLES
    args,       \* keyword arguments of the Exoscale(...) call
    env,        \* os.environ: a function from the variables that are set
    fs,         \* the file system: path -> parsed TOML document
    client,     \* the outcome of Exoscale(...): exception or attributes
    apis,       \* the API objects constructed so far, in order
    sessions,   \* requests.Session objects: the adapter mounted on each
    lastSend,   \* the outcome of the most recent API.send call
    heap,       \* Resource objects: object id -> attribute values
    refs,       \* references held by callers: name -> object id
    lastOp      \* the _reset call, when the most recent operation was one

cfgVars == <<args, env, fs, client>>
apiVars == <<apis, sessions, lastSend>>
resVars == <<heap, refs, lastOp>>
vars == <<args, env, fs, client, apis, sessions, lastSend, heap, refs, lastOp>>

None == "None"

\* Python truthiness of an optional string: None and "" are falsy.
Truthy(v) == v # None /\ v # ""

(***************************************************************************)
(* exoscale/__init__.py                                                    *)
(***************************************************************************)

_API_KEY_ENVVAR == "EXOSCALE_API_KEY"
_API_SECRET_ENVVAR == "EXOSCALE_API_SECRET"
_COMPUTE_API_ENDPOINT_ENVVAR == "EXOSCALE_COMPUTE_API_ENDPOINT"
_DNS_API_ENDPOINT_ENVVAR == "EXOSCALE_DNS_API_ENDPOINT"
_RUNSTATUS_API_ENDPOINT_ENVVAR == "EXOSCALE_RUNSTATUS_API_ENDPOINT"
_STORAGE_API_ENDPOINT_ENVVAR == "EXOSCALE_STORAGE_API_ENDPOINT"
_IAM_API_ENDPOINT_ENVVAR == "EXOSCALE_IAM_API_ENDPOINT"
_STORAGE_ZONE_ENVVAR == "EXOSCALE_STORAGE_ZONE"
_CONFIG_FILE_ENVVAR == "EXOSCALE_CONFIG_FILE"
_DEFAULT_CONFIG_FILE == "~/config.toml"

\* The two fields the profile must carry, and the six optional ones.
CredFields == {"api_key", "api_secret"}
OptFields == {"compute_api_endpoint", "dns_api_endpoint", "storage_api_endpoint",
              "storage_zone", "runstatus_api_endpoint", "iam_api_endpoint"}
Fields == CredFields \cup OptFields

\* The environment variable the fallback block reads for each field.
EnvVarOf(f) ==
    CASE f = "api_key" -> _API_KEY_ENVVAR
      [] f = "api_secret" -> _API_SECRET_ENVVAR
      [] f = "compute_api_endpoint" -> _COMPUTE_API_ENDPOINT_ENVVAR
      [] f = "dns_api_endpoint" -> _DNS_API_ENDPOINT_ENVVAR
      [] f = "storage_api_endpoint" -> _STORAGE_API_ENDPOINT_ENVVAR
      [] f = "storage_zone" -> _STORAGE_ZONE_ENVVAR
      [] f = "runstatus_api_endpoint" -> _RUNSTATUS_API_ENDPOINT_ENVVAR
      [] f = "iam_api_endpoint" -> _IAM_API_ENDPOINT_ENVVAR

\* os.getenv(name, None)
getenv(e, name) == IF name \in DOMAIN e THEN e[name] ELSE None

\* dict.get(k, None)
DictGet(d, k) == IF k \in DOMAIN d THEN d[k] ELSE None

NoExc == "none"
NoAttrs == [f \in Fields |-> None]

\* The five sub-clients the constructor builds, and the parameter that holds
\* the endpoint of each.
Families == {"compute", "dns", "storage", "runstatus", "iam"}
EndpointOf(fam) == fam \o "_api_endpoint"

EmptyDict == [k \in {} |-> None]
NoClients == [fam \in Families |-> EmptyDict]

\* The outcome of a call: the exception raised (exc, reason) or NoExc; the
\* profile selected, if any; the resolved fields; and the keyword arguments
\* each sub-client was built with.
Result(e, why, sel, attrs, clients) ==
    [exc |-> e, reason |-> why, sel |-> sel, attrs |-> attrs, clients |-> clients]

Raise(e, why) == Result(e, why, <<>>, NoAttrs, NoClients)

Selected(profile) == Result(NoExc, "", <<profile>>, NoAttrs, NoClients)

\* The loop of _get_profile: the first profile whose "name" equals the wanted
\* name; a["name"] on a profile without that key raises KeyError.
RECURSIVE FindProfile(_, _, _)
FindProfile(profiles, profile, i) ==
    IF i > Len(profiles)
    THEN Raise("ConfigurationError", "profile not found")
    ELSE IF "name" \notin DOMAIN profiles[i]
    THEN Raise("KeyError", "name")
    ELSE IF profiles[i]["name"] = profile
    THEN Selected(profiles[i])
    ELSE FindProfile(profiles, profile, i + 1)

\* Exoscale._get_profile(profile) on the loaded document config.
_get_profile(config, profile) ==
    IF "profiles" \notin DOMAIN config \/ Len(config["profiles"]) = 0
    THEN Raise("ConfigurationError", "no profiles configured")
    ELSE IF Truthy(profile) \/ "default_profile" \in DOMAIN config
    THEN LET wanted == IF "default_profile" \in DOMAIN config /\ ~Truthy(profile)
                       THEN config["default_profile"]
                       ELSE profile
         IN FindProfile(config["profiles"], wanted, 1)
    ELSE Selected(config["profiles"][1])

\* Lines 70-74: the path of the configuration file to open, or a falsy value.
ConfigFilePath(a, e) ==
    IF Truthy(a["config_file"]) THEN a["config_file"] ELSE getenv(e, _CONFIG_FILE_ENVVAR)

\* Lines 75-83: self._config as a sequence, << >> when the attribute was never
\* set. The default file is read when no document was loaded or the loaded
\* one is an empty dict ("not getattr(self, '_config', None)").
LoadConfig(a, e, files) ==
    LET path == ConfigFilePath(a, e)
        first == IF Truthy(path) THEN <<files[path]>> ELSE <<>>
    IN IF (first = <<>> \/ DOMAIN first[1] = {}) /\ _DEFAULT_CONFIG_FILE \in DOMAIN files
       THEN <<files[_DEFAULT_CONFIG_FILE]>>
       ELSE first

\* A variant of MissingKeys that does not look for "name".
MissingKeysNoName(profile) == {"api_key", "api_secret"} \ DOMAIN profile

\* Lines 87-91: the keys whose absence from the selected profile raises. The
\* loop runs over a Python set, so which missing key is reported first is not
\* determined: every missing key is a possible report.
MissingKeys(profile) == {"name", "api_key", "api_secret"} \ DOMAIN profile

\* The message 'profile missing "<k>" key' (written here without the quotes).
MissingKeyReason(k) == "profile missing " \o k \o " key"

\* Lines 93-126: an argument that is falsy is replaced by the profile's entry.
MergeProfile(f, explicit, profile) ==
    IF Truthy(explicit)
    THEN explicit
    ELSE IF f \in CredFields THEN profile[f] ELSE DictGet(profile, f)

\* A variant of MergeEnv in which a set environment variable wins over the
\* value merged so far.
MergeEnvEnvFirst(f, value, e) ==
    IF Truthy(getenv(e, EnvVarOf(f))) THEN getenv(e, EnvVarOf(f)) ELSE value

\* Lines 129-162: a value that is still falsy is replaced by the environment's.
MergeEnv(f, value, e) ==
    IF Truthy(value) THEN value ELSE getenv(e, EnvVarOf(f))

\* Lines 164-165: the final check.
CredentialsMissing(api_key, api_secret) == api_key = None \/ api_secret = None

\* Lines 170-220: the keyword arguments of one sub-client. endpoint (and, for
\* storage, zone) is passed only when it is not None.
ClientKwargs(fam, a, final) ==
    [key |-> final["api_key"], secret |-> final["api_secret"],
     max_retries |-> a["max_retries"], trace |-> a["trace"]]
    @@ (IF final[EndpointOf(fam)] # None
        THEN "endpoint" :> final[EndpointOf(fam)] ELSE EmptyDict)
    @@ (IF fam = "storage" /\ final["storage_zone"] # None
        THEN "zone" :> final["storage_zone"] ELSE EmptyDict)

\* Lines 93-220, given the selected profile (<< >> when no document was loaded).
Finish(a, e, sel) ==
    LET merged == [f \in Fields |->
                      IF sel = <<>> THEN a[f] ELSE MergeProfile(f, a[f], sel[1])]
        final == [f \in Fields |-> MergeEnv(f, merged[f], e)]
    IN IF CredentialsMissing(final["api_key"], final["api_secret"])
       THEN [Raise("ConfigurationError", "missing API key/secret") EXCEPT !.sel = sel]
       ELSE Result(NoExc, "", sel, final,
                   [fam \in Families |-> ClientKwargs(fam, a, final)])

\* Exoscale.__init__: the set of outcomes the call can have.
Exoscale__init__(a, e, files) ==
    LET path == ConfigFilePath(a, e)
    IN IF Truthy(path) /\ path \notin DOMAIN files
       THEN {Raise("FileNotFoundError", path)}
       ELSE LET config == LoadConfig(a, e, files)
            IN IF config = <<>>
               THEN {Finish(a, e, <<>>)}
               ELSE LET got == _get_profile(config[1], a["profile"])
                    IN IF got.exc # NoExc
                       THEN {got}
                       ELSE IF MissingKeys(got.sel[1]) # {}
                       THEN {[Raise("ConfigurationError", MissingKeyReason(k))
                                 EXCEPT !.sel = got.sel] : k \in MissingKeys(got.sel[1])}
                       ELSE {Finish(a, e, got.sel)}

Pending == Raise("pending", "")

\* The call Exoscale(**args) in the environment env with the files fs.
Construct ==
    /\ client = Pending
    /\ \E r \in Exoscale__init__(args, env, fs) : client' = r
    /\ UNCHANGED <<args, env, fs, apiVars, resVars>>

NextCfg == Construct

(***************************************************************************)
(* Input sets of the Exoscale(...) call.                                   *)
(***************************************************************************)

\* How a source carries a field: not at all, as the empty string, as a value.
Pat == {"absent", "empty", "value"}

\* The value a source carries for field f: tagged with source and field, so
\* that the origin of a resolved value can be read off it.
MkVal(src, f, p) == IF p = "empty" THEN "" ELSE src \o ":" \o f

ArgNames == Fields \cup {"config_file", "profile"}

\* The default of the constructor's max_retries parameter.
ClientMaxRetries == 3

\* Keyword arguments: an omitted argument has its default; max_retries and
\* trace are left at theirs.
MkArgs(pat, config_file, profile) ==
    [n \in ArgNames |->
        IF n = "config_file" THEN config_file
        ELSE IF n = "profile" THEN profile
        ELSE IF pat[n] = "absent" THEN None ELSE MkVal("arg", n, pat[n])]
    @@ [max_retries |-> ClientMaxRetries, trace |-> FALSE]

FieldOfEnvVar(n) == CHOOSE f \in Fields : EnvVarOf(f) = n

\* os.environ: the variables whose pattern is not "absent", plus
\* EXOSCALE_CONFIG_FILE when cfg is not None.
MkEnv(pat, cfg) ==
    LET set == {EnvVarOf(f) : f \in {g \in Fields : pat[g] # "absent"}}
        names == IF cfg = None THEN set ELSE set \cup {_CONFIG_FILE_ENVVAR}
    IN [n \in names |->
           IF n = _CONFIG_FILE_ENVVAR THEN cfg
           ELSE MkVal("env", FieldOfEnvVar(n), pat[FieldOfEnvVar(n)])]

\* A profile table: "name" when name is not None, and the fields whose
\* pattern is not "absent".
MkProfile(tag, name, pat) ==
    LET keys == {f \in Fields : pat[f] # "absent"}
                    \cup (IF name = None THEN {} ELSE {"name"})
    IN [k \in keys |-> IF k = "name" THEN name ELSE MkVal(tag, k, pat[k])]

NoFiles == [p \in {} |-> None]
EmptyDoc == EmptyDict

\* The API and Resource parts stay idle in the specifications of Exoscale(...).
IdleApi == apis = <<>> /\ sessions = <<>> /\ lastSend = <<>>
IdleRes == heap = <<>> /\ refs = <<>> /\ lastOp = <<>>
IdleCfg == args = <<>> /\ env = <<>> /\ fs = <<>> /\ client = Pending

(***************************************************************************)
(* SpecResolve: every combination of argument, profile entry and           *)
(* environment variable per field. The eight fields fall in three groups   *)
(* that vary independently; the fields of a group share a pattern.         *)
(***************************************************************************)

Groups == {"A", "B", "C"}

GroupOf(f) ==
    CASE f \in {"api_key", "dns_api_endpoint", "runstatus_api_endpoint"} -> "A"
      [] f \in {"api_secret", "storage_api_endpoint", "iam_api_endpoint"} -> "B"
      [] f \in {"compute_api_endpoint", "storage_zone"} -> "C"

PerField(gp) == [f \in Fields |-> gp[GroupOf(f)]]

AllValue == [f \in Fields |-> "value"]

InitResolve ==
    /\ \E pa \in [Groups -> Pat], pe \in [Groups -> Pat] :
         \/ /\ args = MkArgs(PerField(pa), None, None)
            /\ env = MkEnv(PerField(pe), None)
            /\ fs = NoFiles
         \/ \E pp \in [Groups -> Pat] :
              \/ /\ args = MkArgs(PerField(pa), "arg.toml", None)
                 /\ env = MkEnv(PerField(pe), None)
                 /\ fs = ("arg.toml" :>
                           [profiles |-> <<MkProfile("p1", "a", PerField(pp))>>])
              \/ /\ args = MkArgs(PerField(pa), None, None)
                 /\ env = MkEnv(PerField(pe), "env.toml")
                 /\ fs = ("env.toml" :>
                           [profiles |-> <<MkProfile("p1", "a", AllValue),
                                           MkProfile("p2", "b", PerField(pp))>>,
                            default_profile |-> "b"])
    /\ client = Pending
    /\ IdleApi /\ IdleRes

SpecResolve == InitResolve /\ [][NextCfg]_vars

\* The field f as the precedence rule gives it: the explicit argument when it
\* is non-empty, else the selected profile's entry when a document was loaded
\* and the entry is non-empty, else the environment variable, else None.
ExpectedField(f) ==
    IF Truthy(args[f]) THEN args[f]
    ELSE IF client.sel # <<>> /\ f \in DOMAIN client.sel[1] /\ Truthy(client.sel[1][f])
    THEN client.sel[1][f]
    ELSE IF EnvVarOf(f) \in DOMAIN env THEN env[EnvVarOf(f)]
    ELSE None

\* C1: a successful construction resolves every field to the explicit
\* argument if non-empty, else to the selected profile's entry if a document
\* was loaded and the entry is non-empty, else to the environment variable,
\* else to None; an empty or None argument falls through.
C1_Precedence ==
    client.exc = NoExc =>
        /\ \A f \in Fields : client.attrs[f] = ExpectedField(f)
        /\ \A fam \in Families :
              /\ client.clients[fam]["key"] = ExpectedField("api_key")
              /\ client.clients[fam]["secret"] = ExpectedField("api_secret")
              /\ DictGet(client.clients[fam], "endpoint")
                    = ExpectedField(fam \o "_api_endpoint")
        /\ DictGet(client.clients["storage"], "zone") = ExpectedField("storage_zone")

\* A construction in which one field comes from the argument, one from the
\* profile under an empty-string argument, one from the environment under an
\* omitted argument and an empty profile entry, and one is left None.
C1_Witness ==
    /\ client.exc = NoExc
    /\ client.sel # <<>>
    /\ client.attrs["api_key"] = "arg:api_key"
    /\ args["api_secret"] = "" /\ client.attrs["api_secret"] = "p2:api_secret"
    /\ args["storage_zone"] = None
    /\ "storage_zone" \in DOMAIN client.sel[1] /\ client.sel[1]["storage_zone"] = ""
    /\ client.attrs["storage_zone"] = "env:storage_zone"

\* C5: every successfully constructed client holds a non-empty api_key and a
\* non-empty api_secret (an empty string counts as unset in every source).
C5_NonEmptyCredentials ==
    client.exc = NoExc =>
        Truthy(client.attrs["api_key"]) /\ Truthy(client.attrs["api_secret"])

(***************************************************************************)
(* SpecSelect: one configuration file, found through the argument, the     *)
(* environment variable or the default path, holding up to MaxProfiles     *)
(* profiles, each with or without a name and with or without its           *)
(* credentials; with and without default_profile and a profile argument.   *)
(***************************************************************************)

MaxProfiles == 2

ProfileNames == {"a", "b"}

\* Profile i of a file: its name (None: no "name" key), and the credential
\* key it lacks (None: it lacks none).
ShapedProfile(i, name, lacks) ==
    MkProfile("p" \o ToString(i), name,
              [f \in Fields |-> IF f \in CredFields /\ f # lacks THEN "value" ELSE "absent"])

ProfileLists ==
    UNION {{[i \in 1..n |-> ShapedProfile(i, sh[i][1], sh[i][2])] :
              sh \in [1..n -> (ProfileNames \cup {None}) \X (CredFields \cup {None})]} :
           n \in 0..MaxProfiles}

\* Where the credentials are also available outside the file.
CredSources == {"nowhere", "arg", "env"}

CredPat(src, here) ==
    [f \in Fields |-> IF f \in CredFields /\ src = here THEN "value" ELSE "absent"]

InitSelect ==
    /\ \E ps \in ProfileLists, dp \in ProfileNames \cup {None},
          pr \in ProfileNames \cup {None, ""}, cs \in CredSources,
          how \in {"arg", "env", "default"} :
         LET doc == IF dp = None THEN [profiles |-> ps]
                    ELSE [profiles |-> ps, default_profile |-> dp]
         IN /\ args = MkArgs(CredPat(cs, "arg"),
                             IF how = "arg" THEN "arg.toml" ELSE None, pr)
            /\ env = MkEnv(CredPat(cs, "env"),
                           IF how = "env" THEN "env.toml" ELSE None)
            /\ fs = (CASE how = "arg" -> ("arg.toml" :> doc)
                       [] how = "env" -> ("env.toml" :> doc)
                       [] how = "default" -> (_DEFAULT_CONFIG_FILE :> doc))
    /\ client = Pending
    /\ IdleApi /\ IdleRes

SpecSelect == InitSelect /\ [][NextCfg]_vars

Done == client.exc # "pending"

\* The one file of a SpecSelect state.
TheDoc == fs[CHOOSE p \in DOMAIN fs : TRUE]

\* The profile name asked for: the profile argument, else default_profile.
Wanted ==
    IF Truthy(args["profile"]) THEN <<args["profile"]>>
    ELSE IF "default_profile" \in DOMAIN TheDoc THEN <<TheDoc["default_profile"]>>
    ELSE <<>>

Named(w) ==
    {i \in 1..Len(TheDoc["profiles"]) :
        "name" \in DOMAIN TheDoc["profiles"][i] /\ TheDoc["profiles"][i]["name"] = w}

\* C2: with at least one profile in the file, selection returns the profile
\* named by the profile argument, else the one named by default_profile, else
\* the first profile; a name that no profile carries fails with
\* ConfigurationError.
C2_Selection ==
    (Done /\ Len(TheDoc["profiles"]) >= 1) =>
        IF Wanted = <<>>
        THEN client.sel = <<TheDoc["profiles"][1]>>
        ELSE IF Named(Wanted[1]) # {}
        THEN \E i \in Named(Wanted[1]) : client.sel = <<TheDoc["profiles"][i]>>
        ELSE client.exc = "ConfigurationError"

\* C4: a selected profile that lacks name, api_key or api_secret makes the
\* construction fail with ConfigurationError naming a missing key, whatever
\* the arguments and the environment hold.
C4_ProfileCompleteness ==
    (Done /\ client.sel # <<>>) =>
        LET lacking == {"name", "api_key", "api_secret"} \ DOMAIN client.sel[1]
        IN lacking # {} =>
              /\ client.exc = "ConfigurationError"
              /\ \E k \in lacking : client.reason = MissingKeyReason(k)

\* The selected profile has no api_secret, the environment has one, and the
\* construction failed naming api_secret.
C4_Witness ==
    /\ client.sel # <<>>
    /\ "api_secret" \notin DOMAIN client.sel[1]
    /\ _API_SECRET_ENVVAR \in DOMAIN env
    /\ client.exc = "ConfigurationError"
    /\ client.reason = MissingKeyReason("api_secret")

(***************************************************************************)
(* SpecFile: what the three places a configuration file is looked for at   *)
(* hold, and which of them the call names.                                 *)
(***************************************************************************)

\* The documents a file can hold: no key at all, no "profiles" key, an empty
\* profile list, or one complete profile (tagged with the file it is in).
DocsAt(tag) ==
    { EmptyDoc,
      [default_profile |-> "a"],
      [profiles |-> <<>>],
      [profiles |-> <<>>, default_profile |-> "a"],
      [profiles |-> <<MkProfile(tag, "a", CredPat("x", "x"))>>] }

Paths == {"arg.toml", "env.toml", _DEFAULT_CONFIG_FILE}

TagOf(path) ==
    CASE path = "arg.toml" -> "fa" [] path = "env.toml" -> "fe" [] OTHER -> "fd"

FileSystems ==
    UNION {{f \in [present -> UNION {DocsAt(TagOf(p)) : p \in present}] :
              \A p \in present : f[p] \in DocsAt(TagOf(p))} :
           present \in SUBSET Paths}

InitFile ==
    /\ \E files \in FileSystems, cf \in {None, "", "arg.toml"},
          ce \in {None, "", "env.toml"}, cs \in CredSources :
         /\ args = MkArgs(CredPat(cs, "arg"), cf, None)
         /\ env = MkEnv(CredPat(cs, "env"), ce)
         /\ fs = files
    /\ client = Pending
    /\ IdleApi /\ IdleRes

SpecFile == InitFile /\ [][NextCfg]_vars

\* The file the call is given: the argument's, else the environment
\* variable's, else the one at the default path (<< >>: none).
Supplied ==
    IF Truthy(args["config_file"]) THEN <<args["config_file"]>>
    ELSE IF Truthy(getenv(env, _CONFIG_FILE_ENVVAR)) THEN <<env[_CONFIG_FILE_ENVVAR]>>
    ELSE IF _DEFAULT_CONFIG_FILE \in DOMAIN fs THEN <<_DEFAULT_CONFIG_FILE>>
    ELSE <<>>

\* C3: when the supplied file has no "profiles" entry or an empty profile
\* list, the construction fails with ConfigurationError, whatever the
\* environment, the arguments and the default path hold.
C3_NoProfilesFails ==
    (Done /\ Supplied # <<>> /\ Supplied[1] \in DOMAIN fs) =>
        LET doc == fs[Supplied[1]]
        IN ("profiles" \notin DOMAIN doc \/ Len(doc["profiles"]) = 0)
              => client.exc = "ConfigurationError"

(***************************************************************************)
(* exoscale/api/__init__.py: API                                           *)
(*                                                                         *)
(* The retry loop itself is urllib3's (Retry, HTTPConnectionPool.urlopen), *)
(* driven by requests' HTTPAdapter; it is modelled here as configured at   *)
(* lines 65-74: Retry(total, backoff_factor, status_forcelist=None), every *)
(* other Retry parameter at its default. Redirects are left out.           *)
(***************************************************************************)

DefaultMaxRetries == 3

\* retry_backoff_factor in tenths: the default is 0.3.
DefaultBackoffTenths == 3

Schemes == {"http://", "https://"}

\* Retry(total=..., backoff_factor=..., status_forcelist=None)
Retry(total, backoff_factor) ==
    [total |-> total, backoff_factor |-> backoff_factor, status_forcelist |-> {}]

\* requests.Session(): both prefixes mounted with an adapter that never retries.
NewSession == [sch \in Schemes |-> Retry(0, 0)]

\* session.mount(prefix, adapter) for both prefixes.
Mount(session, adapter) == [sch \in Schemes |-> adapter]

\* attrs' __init__: a keyword that is not given takes the field's default;
\* the default of session is the one Session object made at line 40, which is
\* sessions[1].
Field(kw, name, default) == IF name \in DOMAIN kw THEN kw[name] ELSE default

\* API(**kw): __init__ followed by __attrs_post_init__. A session given by the
\* caller is a Session object of its own, appended to sessions.
NewAPI(kw) ==
    LET own == "session" \in DOMAIN kw
        sid == IF own THEN Len(sessions) + 1 ELSE 1
        all == IF own THEN Append(sessions, NewSession) ELSE sessions
        self == [trace |-> Field(kw, "trace", FALSE),
                 session |-> sid,
                 max_retries |-> Field(kw, "max_retries", DefaultMaxRetries),
                 retry_backoff_factor |->
                     Field(kw, "retry_backoff_factor", DefaultBackoffTenths)]
        adapter == Retry(self.max_retries, self.retry_backoff_factor)
    IN /\ lastSend = <<>>
       /\ apis' = Append(apis, self)
       /\ sessions' = [all EXCEPT ![sid] = Mount(all[sid], adapter)]
       /\ UNCHANGED <<lastSend, cfgVars, resVars>>

\* What one attempt on the wire can end in: a transport failure while
\* connecting (refused, DNS, TLS, connect timeout) or while reading, or a
\* response: 200, 500, or 503 carrying a Retry-After header.
Failures == {"connect", "read"}
Responses == {"200", "500", "503+Retry-After"}
Outcomes == Failures \cup Responses

StatusOf(o) == IF o = "503+Retry-After" THEN "503" ELSE o

\* Retry.DEFAULT_ALLOWED_METHODS
IsMethodRetryable(method) ==
    method \in {"HEAD", "GET", "PUT", "DELETE", "OPTIONS", "TRACE"}

\* Retry.is_retry: with no status_forcelist only a 413/429/503 response with
\* Retry-After is retried, while total is not 0.
IsRetry(policy, method, o) ==
    /\ o \in Responses
    /\ IsMethodRetryable(method)
    /\ \/ StatusOf(o) \in policy.status_forcelist
       \/ policy.total # 0 /\ o = "503+Retry-After"

\* A variant of IsExhausted that gives up one attempt early.
IsExhaustedEarly(total) == total <= 0

\* Retry.is_exhausted, after increment has taken one off total.
IsExhausted(total) == total < 0

Returned(o) == [kind |-> "returned", value |-> o]
Raised(e) == [kind |-> "raised", value |-> e]

\* The requests exception a transport failure surfaces as.
RequestsError(o, exhausted) ==
    IF o = "read" /\ ~exhausted
    THEN "requests.exceptions.ReadTimeout"
    ELSE "requests.exceptions.ConnectionError"

\* session.send(req) through the adapter mounted with policy: every course
\* the attempts can take, as [attempts, result].
RECURSIVE SessionSend(_, _)
SessionSend(policy, method) ==
    UNION {
        LET again == {[r EXCEPT !.attempts = <<o>> \o @] :
                         r \in SessionSend([policy EXCEPT !.total = @ - 1], method)}
        IN IF o \in Failures
           THEN IF o = "read" /\ ~IsMethodRetryable(method)
                THEN {[attempts |-> <<o>>, result |-> Raised(RequestsError(o, FALSE))]}
                ELSE IF IsExhausted(policy.total - 1)
                THEN {[attempts |-> <<o>>, result |-> Raised(RequestsError(o, TRUE))]}
                ELSE again
           ELSE IF IsRetry(policy, method, o)
           THEN again
           ELSE {[attempts |-> <<o>>, result |-> Returned(o)]}
        : o \in Outcomes}

\* Lines 89-99: the lines printed before the request is sent.
RequestTrace(req) ==
    IF req.body THEN <<">>> method url", "    headers", "    body">>
    ELSE <<">>> method url", "    headers">>

\* A variant of ResponseTrace that prints the status line only.
ResponseTraceStatusOnly == <<"<<< status reason">>

\* Lines 103-114: the lines printed after the response has arrived.
ResponseTrace == <<"<<< status reason", "    headers", "    body">>

\* API.send(**kwargs) on the API object self: every course it can take, as
\* [trace, attempts, result]. Request(**kwargs).prepare() raises on a request
\* that is not valid, before anything is printed or sent.
API_send(self, session, req) ==
    IF ~req.valid
    THEN {[trace |-> <<>>, attempts |-> <<>>,
           result |-> Raised("requests.exceptions.RequestException")]}
    ELSE LET pre == IF self.trace THEN RequestTrace(req) ELSE <<>>
         IN {[trace |-> IF r.result.kind = "returned" /\ self.trace
                        THEN pre \o ResponseTrace
                        ELSE pre,
              attempts |-> r.attempts,
              result |-> r.result] :
                r \in SessionSend(session[req.scheme], req.method)}

\* apis[i].send(**req): one send is observed per behaviour; it leaves the API
\* objects and the sessions as they are.
Send(i, req) ==
    /\ lastSend = <<>>
    /\ i \in 1..Len(apis)
    /\ \E r \in API_send(apis[i], sessions[apis[i].session], req) :
          lastSend' = <<[api |-> i, req |-> req, trace |-> r.trace,
                         attempts |-> r.attempts, result |-> r.result]>>
    /\ UNCHANGED <<apis, sessions, cfgVars, resVars>>

InitApi ==
    /\ apis = <<>>
    /\ sessions = <<NewSession>>
    /\ lastSend = <<>>
    /\ IdleCfg /\ IdleRes

(***************************************************************************)
(* SpecSend: up to MaxApis API objects on the default session, then one    *)
(* send through any of them.                                               *)
(***************************************************************************)

MaxApis == 2

\* max_retries is given as 0..MaxRetriesArg, or left at its default.
MaxRetriesArg == 2

NoKw == [k \in {} |-> 0]

\* Keyword arguments from optional values (<< >>: keyword not given).
Kw(name, opt) == IF opt = <<>> THEN NoKw ELSE name :> opt[1]

Opt(S) == {<<>>} \cup {<<x>> : x \in S}

SendKws ==
    {Kw("max_retries", mr) @@ Kw("trace", tr) :
        mr \in Opt(0..MaxRetriesArg), tr \in Opt({TRUE})}

\* The requests sent: one that prepare() rejects, and GET and POST requests
\* to either scheme, with and without a body.
Requests ==
    {[valid |-> FALSE, scheme |-> "http://", method |-> "GET", body |-> FALSE]}
    \cup [valid : {TRUE}, scheme : Schemes, method : {"GET", "POST"}, body : BOOLEAN]

NextSend ==
    \/ \E kw \in SendKws : Len(apis) < MaxApis /\ NewAPI(kw)
    \/ \E i \in 1..Len(apis), req \in Requests : Send(i, req)

SpecSend == InitApi /\ [][NextSend]_vars

(***************************************************************************)
(* SpecPolicy: API objects with different retry settings, on the default   *)
(* session or on a session of their own, then one POST through any.        *)
(***************************************************************************)

PolicyKws ==
    {Kw("max_retries", mr) @@ Kw("retry_backoff_factor", bf) @@ Kw("session", se) :
        mr \in Opt({0, 1}), bf \in Opt({0}), se \in Opt({"own"})}

PostRequest == [valid |-> TRUE, scheme |-> "https://", method |-> "POST", body |-> TRUE]

NextPolicy ==
    \/ \E kw \in PolicyKws : Len(apis) < MaxApis /\ NewAPI(kw)
    \/ \E i \in 1..Len(apis) : Send(i, PostRequest)

SpecPolicy == InitApi /\ [][NextPolicy]_vars

\* The send that was observed, its API object, and the retry policy mounted,
\* for its scheme, on the session it went through.
Sent == lastSend[1]
Sender == apis[Sent.api]
PolicyInEffect(i, sch) == sessions[apis[i].session][sch]

TransportFailure == lastSend # <<>> /\ Sent.attempts # <<>> /\ Sent.result.kind = "raised"

\* C6: a send that fails on a transport failure, after the retries, fails
\* with RequestError and with no other error type.
C6_RequestError ==
    TransportFailure => Sent.result.value = "RequestError"

C9_PolicyImmutable ==
    (\A j \in 1..Len(apis) : apis[j].session = 1) =>
        \A i \in 1..Len(apis), sch \in Schemes :
            PolicyInEffect(i, sch) =
                Retry(apis[i].max_retries, apis[i].retry_backoff_factor)

\* C10: with tracing on, a finished send has printed both the request lines
\* and the response lines, or nothing.
C10_TraceAllOrNothing ==
    (lastSend # <<>> /\ Sender.trace) =>
        \/ Sent.trace = RequestTrace(Sent.req) \o ResponseTrace
        \/ Sent.trace = <<>>

\* C10, amended: with tracing on, a send that returns a response has printed
\* the request lines and then the response lines; a send in which the session
\* raises has printed the request lines only; a send whose request is
\* rejected before it is sent has printed nothing.
C10_TraceByOutcome ==
    (lastSend # <<>> /\ Sender.trace) =>
        LET pre == IF Sent.req.body
                   THEN <<">>> method url", "    headers", "    body">>
                   ELSE <<">>> method url", "    headers">>
            post == <<"<<< status reason", "    headers", "    body">>
        IN Sent.trace = (CASE Sent.result.kind = "returned" -> pre \o post
                           [] Sent.attempts # <<>> -> pre
                           [] OTHER -> <<>>)

\* A traced send with a body, in which the session raised after a retry: the
\* three request lines were printed and nothing else.
C10_Witness ==
    /\ lastSend # <<>>
    /\ Sender.trace
    /\ Sent.req.body
    /\ Len(Sent.attempts) >= 2
    /\ Sent.result.kind = "raised"
    /\ Len(Sent.trace) = 3

(***************************************************************************)
(* exoscale/api/__init__.py: Resource                                      *)
(*                                                                         *)
(* heap[o] is the object o: a function from its declared attributes to     *)
(* their values. Resource declares res; a subclass declares more. refs     *)
(* are the references callers hold: a name bound to an object, or to 0.    *)
(***************************************************************************)

MaxResources == 2

RefNames == {"r1", "r2", "r3"}

\* The attributes declared by Resource itself and by a subclass of it.
DeclaredAttrs == {{"res"}, {"res", "id", "name"}}

AttrValues == {None, "x"}

\* A variant of Blank that clears only the attribute Resource itself declares.
BlankResOnly(obj) == [obj EXCEPT !["res"] = None]

\* Lines 132-133: for k in asdict(self): setattr(self, k, None)
Blank(obj) == [k \in DOMAIN obj |-> None]

\* r = SomeResource(...): a new object, bound to the name r.
New(r, obj) ==
    /\ Len(heap) < MaxResources
    /\ heap' = Append(heap, obj)
    /\ refs' = [refs EXCEPT ![r] = Len(heap) + 1]
    /\ lastOp' = <<>>
    /\ UNCHANGED <<cfgVars, apiVars>>

\* r = q: another reference to the object q is bound to.
Alias(r, q) ==
    /\ refs[q] # 0
    /\ refs' = [refs EXCEPT ![r] = refs[q]]
    /\ lastOp' = <<>>
    /\ UNCHANGED <<heap, cfgVars, apiVars>>

\* r._reset()
Reset(r) ==
    /\ refs[r] # 0
    /\ heap' = [heap EXCEPT ![refs[r]] = Blank(@)]
    /\ lastOp' = <<[op |-> "reset", target |-> refs[r], before |-> heap[refs[r]]]>>
    /\ UNCHANGED <<refs, cfgVars, apiVars>>

InitRes ==
    /\ heap = <<>>
    /\ refs = [r \in RefNames |-> 0]
    /\ lastOp = <<>>
    /\ IdleCfg
    /\ apis = <<>> /\ sessions = <<>> /\ lastSend = <<>>

NextRes ==
    \/ \E r \in RefNames, attrs \in DeclaredAttrs :
          \E obj \in [attrs -> AttrValues] : New(r, obj)
    \/ \E r, q \in RefNames : Alias(r, q)
    \/ \E r \in RefNames : Reset(r)

SpecRes == InitRes /\ [][NextRes]_vars

\* C8: _reset sets every declared attribute of the object to None and keeps
\* the object: every reference bound before the reset is bound to the same
\* object after it and reads None for every attribute, and every other
\* object is as it was.
C8_ResetInPlace ==
    [][(lastOp' # <<>> /\ lastOp'[1].op = "reset") =>
          LET o == lastOp'[1].target
          IN /\ refs' = refs
             /\ Len(heap') = Len(heap)
             /\ DOMAIN heap'[o] = DOMAIN heap[o]
             /\ \A k \in DOMAIN heap[o] : heap'[o][k] = None
             /\ \A r \in RefNames :
                   refs[r] = o => \A k \in DOMAIN heap[o] : heap'[refs'[r]][k] = None
             /\ \A p \in 1..Len(heap) : p # o => heap'[p] = heap[p]]_vars

\* A subclass object with no attribute None was reset through one of two
\* references bound to it, while another object holds a value.
C8_Witness ==
    /\ lastOp # <<>>
    /\ lastOp[1].op = "reset"
    /\ DOMAIN lastOp[1].before = {"res", "id", "name"}
    /\ \A k \in DOMAIN lastOp[1].before : lastOp[1].before[k] # None
    /\ \A k \in DOMAIN heap[lastOp[1].target] : heap[lastOp[1].target][k] = None
    /\ \E r, q \in RefNames : r # q /\ refs[r] = lastOp[1].target /\ refs[q] = refs[r]
    /\ \E p \in 1..Len(heap) : p # lastOp[1].target /\ heap[p]["res"] # None

====
